---- MODULE Spec2Model ----
(***************************************************************************)
(* Grainlify escrow contracts: the bounty escrow (lock -> release/refund), *)
(* the program escrow (lock -> single, batch and scheduled payouts), the   *)
(* RBAC role map and the pause switch, as one state machine.  Every        *)
(* entry point runs to completion as one atomic step.  A call that fails   *)
(* aborts and rolls everything back: it is a stuttering step, so an action *)
(* below is the successful call, guarded by "its result is Ok", and the    *)
(* XResult operators say which error a failing call reports.               *)
(***************************************************************************)
EXTENDS Integers, FiniteSets, Sequences, TLC

\* ---------------------------------------------------------------- bounds
NumAddr == 3
NumBounties == 2
NumTokens == 2
MaxAmount == 2
MaxTime == 1
InitBal == 2
\* Stand-in for the largest signed 128-bit amount, and the funds of the sponsor.
IntMax == 127
MaxLocks == 2
MaxPayouts == 2
NumSchedules == 1
\* At most this many entries in the small batches that are enumerated.
MaxBatchLen == 2

\* Hard ceiling on the size of a batch.
MAX_BATCH_SIZE == 100

Addr == 1..NumAddr
Contract == 0
NoAddr == 0
BountyIds == 1..NumBounties
Tokens == 1..NumTokens
NoToken == 0
Amounts == (0 - 1)..MaxAmount
\* Deadlines a depositor may choose; the last one lies beyond the modelled clock.
Deadlines == 0..(MaxTime + 1)

\* ------------------------------------------------------------ data model
Roles == {"Admin", "Operator", "Pauser", "Viewer"}
NoRole == "NoRole"

EscrowStatus == {"Locked", "Released", "Refunded"}
NoEscrow == [depositor |-> NoAddr, amount |-> 0, deadline |-> 0, status |-> "None"]
Escrow(d, a, dl, s) == [depositor |-> d, amount |-> a, deadline |-> dl, status |-> s]

\* Bounty escrow error codes.
AlreadyInitialized == "AlreadyInitialized"
NotInitialized == "NotInitialized"
BountyExists == "BountyExists"
BountyNotFound == "BountyNotFound"
FundsNotLocked == "FundsNotLocked"
DeadlineNotPassed == "DeadlineNotPassed"
Unauthorized == "Unauthorized"
\* Errors of the cross-cutting layers and of the token.
ContractPaused == "ContractPaused"
InvalidAmount == "InvalidAmount"
TransferFailed == "TransferFailed"
\* Program escrow error conditions.
InsufficientBalance == "InsufficientBalance"
ArithmeticOverflow == "ArithmeticOverflow"
BatchTooLarge == "BatchTooLarge"
BatchLengthMismatch == "BatchLengthMismatch"
ScheduleNotFound == "ScheduleNotFound"
ScheduleNotYetUnlocked == "ScheduleNotYetUnlocked"
\* The failure of a payout above the configured per-transaction cap.
PayoutCapExceeded == "PayoutCapExceeded"
Ok == "Ok"

\* paid[b] counts the transfers out of custody made for bounty b, and
\* closer is the address whose call made the latest of them.
VARIABLES admin, token, roles, paused, now, escrows, bal, paid, closer

\* The program escrow: program is the program's record (authorized payout
\* key, token, remaining balance), payout_history its append-only history,
\* schedules its release schedules and limits the configured limits.
\* locked_log and paid_log list the amounts of the successful locks and of the
\* successful disbursements (payouts and scheduled releases), in order.
VARIABLES program, payout_history, schedules, limits, locked_log, paid_log

\* The token transfers the running invocation has still to make, in order;
\* empty between invocations.
VARIABLES transfers

progVars == <<program, payout_history, schedules, limits, locked_log, paid_log, transfers>>

\* The project setup dialog of the web frontend (NewProjectSetupModal): its
\* props, its React state, the save request and the timers it has started,
\* and how often it has called each callback and the API.
VARIABLES modal

\* Bound on how often the dialog's callbacks and the API are called.
MaxCalls == 2

NoProject == 0
NoError == "null"
\* useState defaults, with no project and the dialog closed.
NoModal ==
    [isOpen |-> FALSE, project |-> NoProject, ecosystemName |-> "",
     isLoadingEcosystems |-> FALSE, isSubmitting |-> FALSE, error |-> NoError,
     success |-> FALSE, saving |-> FALSE, timers |-> 0,
     onSaved |-> 0, onSkip |-> 0, onClose |-> 0, updateProjectMetadata |-> 0]

contractVars == <<admin, token, roles, paused, now, escrows, bal, paid, closer, progVars>>

vars == <<contractVars, modal>>

ScheduleIds == 1..NumSchedules
NoProgram == [authorized_key |-> NoAddr, token |-> NoToken, remaining_balance |-> 0]
NoSchedule == [recipient |-> NoAddr, amount |-> 0, unlock |-> 0, status |-> "None"]
\* No per-transaction cap is configured at first: the cap is the largest amount.
DefaultLimits == [max_batch_size |-> MAX_BATCH_SIZE, max_payout_per_transaction |-> IntMax]

ProgInit ==
    /\ program = NoProgram
    /\ payout_history = <<>>
    /\ schedules = [s \in ScheduleIds |-> NoSchedule]
    /\ limits = DefaultLimits
    /\ locked_log = <<>>
    /\ paid_log = <<>>
    /\ transfers = <<>>


Init ==
    /\ admin = NoAddr
    /\ token = NoToken
    /\ roles = [a \in Addr |-> NoRole]
    /\ paused = FALSE
    /\ now = 0
    /\ escrows = [b \in BountyIds |-> NoEscrow]
    /\ bal = [a \in Addr \cup {Contract} |-> IF a = Contract THEN 0 ELSE InitBal]
    /\ paid = [b \in BountyIds |-> 0]
    /\ closer = NoAddr
    /\ modal = NoModal
    /\ ProgInit

\* ------------------------------------------------------------------ RBAC
get_role(a) == roles[a]

is_admin(a) == roles[a] = "Admin"
\* Mutant: the Pauser role counts as an Operator.
IsOperatorOrPauser(a) == roles[a] \in {"Operator", "Admin", "Pauser"}
is_operator(a) == roles[a] \in {"Operator", "Admin"}
\* Mutant: the Admin role does not include the capability to pause.
CanPauseOnlyPauser(a) == roles[a] = "Pauser"
can_pause(a) == roles[a] \in {"Pauser", "Admin"}

\* Outcome of the assert-or-reject checks.
require_admin(a) == IF is_admin(a) THEN Ok ELSE Unauthorized
\* Mutant: the Operator check accepts the Operator role only.
RequireOperatorExact(a) == IF roles[a] = "Operator" THEN Ok ELSE Unauthorized
require_operator(a) == IF is_operator(a) THEN Ok ELSE Unauthorized
require_pauser(a) == IF can_pause(a) THEN Ok ELSE Unauthorized

initialized == admin # NoAddr

InitializedGuard == IF initialized THEN Ok ELSE NotInitialized

\* The checks of an entry point run in order; the first that rejects decides
\* the outcome of the call.
AndThen(check, rest) == IF check # Ok THEN check ELSE rest

\* The generic role check: the stored role is the expected one, or the
\* stored role is Admin and the expected one is Operator or Pauser.
require_role(a, expected) ==
    IF get_role(a) = expected
       \/ (get_role(a) = "Admin" /\ expected \in {"Operator", "Pauser"})
    THEN Ok ELSE Unauthorized

\* Mutant: granting is open to the Operator tier.
GrantResultOperator(caller) == require_operator(caller)
\* Granting and revoking need the literal Admin role.
\* Mutant: a recovery path; when no address holds Admin any caller may grant.
GrantResultRecovery(caller) ==
    IF \A a \in Addr : ~is_admin(a) THEN Ok ELSE require_admin(caller)
GrantResult(caller) == require_admin(caller)
RevokeResult(caller) == require_admin(caller)

\* One role per address: a grant overwrites, a revocation removes.
Granted(a, r) == [roles EXCEPT ![a] = r]
\* Mutant: a revocation leaves the address as a Viewer.
RevokedToViewer(a) == [roles EXCEPT ![a] = "Viewer"]
Revoked(a) == [roles EXCEPT ![a] = NoRole]

grant_role(caller, a, r) ==
    /\ GrantResult(caller) = Ok
    /\ roles' = Granted(a, r)
    /\ UNCHANGED <<admin, token, paused, now, escrows, bal, paid, closer, modal>>
    /\ UNCHANGED progVars

revoke_role(caller, a) ==
    /\ RevokeResult(caller) = Ok
    /\ roles' = Revoked(a)
    /\ UNCHANGED <<admin, token, paused, now, escrows, bal, paid, closer, modal>>
    /\ UNCHANGED progVars

\* ----------------------------------------------------------------- pause
\* Every fund-moving entry point is rejected while the contract is paused.
\* Mutant: the pause switch stops nothing.
PauseGuardOff == Ok
PauseGuard == IF paused THEN ContractPaused ELSE Ok

PauseResult(caller) == AndThen(require_pauser(caller), PauseGuard)

pause_contract(caller) ==
    /\ PauseResult(caller) = Ok
    /\ paused' = TRUE
    /\ UNCHANGED <<admin, token, roles, now, escrows, bal, paid, closer, modal>>
    /\ UNCHANGED progVars

\* Mutant: whoever may pause may also unpause.
UnpauseResultPauser(caller) == require_pauser(caller)
UnpauseResult(caller) == require_admin(caller)

unpause_contract(caller) ==
    /\ UnpauseResult(caller) = Ok
    /\ paused' = FALSE
    /\ UNCHANGED <<admin, token, roles, now, escrows, bal, paid, closer, modal>>
    /\ UNCHANGED progVars

\* ----------------------------------------------------------------- token
\* The token contract's transfer: debit `from`, credit `to`; it aborts the
\* whole invocation when `from` holds less than `amt`.
TokenGuard(from, amt) == IF bal[from] >= amt THEN Ok ELSE TransferFailed
Transfer(from, to, amt) ==
    [a \in DOMAIN bal |->
        IF a = from /\ a = to THEN bal[a]
        ELSE IF a = from THEN bal[a] - amt
        ELSE IF a = to THEN bal[a] + amt
        ELSE bal[a]]

\* --------------------------------------------------------- bounty escrow
\* Mutant: initialize never rejects.
InitGuardOff == Ok
InitGuard == IF initialized THEN AlreadyInitialized ELSE Ok

InitializeResult == InitGuard

\* Mutant: initialisation makes every address an Admin.
InitialRolesAll(a) == [x \in DOMAIN roles |-> "Admin"]
\* Initialisation stores the admin and gives it the Admin role.
InitialRoles(a) == [roles EXCEPT ![a] = "Admin"]

initialize(caller, a, t) ==
    /\ InitializeResult = Ok
    /\ admin' = a
    /\ token' = t
    /\ roles' = InitialRoles(a)
    /\ UNCHANGED <<paused, now, escrows, bal, paid, closer, modal>>
    /\ UNCHANGED progVars

HasEscrow(b) == escrows[b].status \in EscrowStatus

\* lock_funds needs the depositor's own signature.
LockAuth(caller, depositor) == IF caller = depositor THEN Ok ELSE Unauthorized
\* Mutant: only a Locked record blocks the identifier.
UniqueGuardLockedOnly(b) == IF escrows[b].status = "Locked" THEN BountyExists ELSE Ok
UniqueGuard(b) == IF HasEscrow(b) THEN BountyExists ELSE Ok
\* Mutant: only negative amounts are rejected.
AmountGuardZero(amount) == IF amount < 0 THEN InvalidAmount ELSE Ok
AmountGuard(amount) == IF amount <= 0 THEN InvalidAmount ELSE Ok
NewEscrow(depositor, amount, deadline) == Escrow(depositor, amount, deadline, "Locked")

LockResult(caller, depositor, b, amount) ==
    AndThen(InitializedGuard, AndThen(PauseGuard, AndThen(LockAuth(caller, depositor), AndThen(UniqueGuard(b), AndThen(AmountGuard(amount), TokenGuard(depositor, amount))))))

lock_funds(caller, depositor, b, amount, deadline) ==
    /\ LockResult(caller, depositor, b, amount) = Ok
    /\ escrows' = [escrows EXCEPT ![b] = NewEscrow(depositor, amount, deadline)]
    /\ bal' = Transfer(depositor, Contract, amount)
    /\ UNCHANGED <<admin, token, roles, paused, now, paid, closer, modal>>
    /\ UNCHANGED progVars

\* Mutants: no authorization check at all; the Operator check in place of the Admin one.
ReleaseAuthMissing(caller) == Ok
ReleaseAuthOperator(caller) == require_operator(caller)
\* release_funds needs the admin's signature.
ReleaseAuth(caller) == require_admin(caller)
LookupGuard(b) == IF HasEscrow(b) THEN Ok ELSE BountyNotFound
\* Mutant: the status is not looked at.
StatusGuardOff(b) == Ok
StatusGuard(b) == IF escrows[b].status = "Locked" THEN Ok ELSE FundsNotLocked
\* Mutant: the funds go to whoever calls.
ReleaseRecipientCaller(caller, contributor) == caller
ReleaseRecipient(caller, contributor) == contributor
\* Mutant: the whole contract balance is paid out.
PayoutAmountAll(b) == bal[Contract]
\* What leaves custody on release or refund: the bounty's locked amount.
PayoutAmount(b) == escrows[b].amount
\* Mutant: the new status is not persisted.
SetStatusLost(b, s) == escrows
\* State is written first, the token transfer follows.
SetStatus(b, s) == [escrows EXCEPT ![b].status = s]

ReleaseResult(caller, b) ==
    AndThen(InitializedGuard, AndThen(PauseGuard, AndThen(ReleaseAuth(caller), AndThen(LookupGuard(b), StatusGuard(b)))))

release_funds(caller, b, contributor) ==
    /\ ReleaseResult(caller, b) = Ok
    /\ escrows' = SetStatus(b, "Released")
    /\ bal' = Transfer(Contract, ReleaseRecipient(caller, contributor), PayoutAmount(b))
    /\ paid' = [paid EXCEPT ![b] = @ + 1]
    /\ closer' = caller
    /\ UNCHANGED <<admin, token, roles, paused, now, modal>>
    /\ UNCHANGED progVars

\* Mutant: the deadline instant itself is still too early.
DeadlineGuardStrict(b) == IF now > escrows[b].deadline THEN Ok ELSE DeadlineNotPassed
DeadlineGuard(b) == IF now >= escrows[b].deadline THEN Ok ELSE DeadlineNotPassed
\* Mutant: the refund goes to whoever calls.
RefundRecipientCaller(caller, b) == caller
RefundRecipient(caller, b) == escrows[b].depositor

\* Mutant: refund asks for the admin's signature.
RefundResultAdminOnly(caller, b) ==
    AndThen(InitializedGuard, AndThen(PauseGuard, AndThen(require_admin(caller), AndThen(LookupGuard(b), AndThen(StatusGuard(b), DeadlineGuard(b))))))
RefundResult(caller, b) ==
    AndThen(InitializedGuard, AndThen(PauseGuard, AndThen(LookupGuard(b), AndThen(StatusGuard(b), DeadlineGuard(b)))))

refund(caller, b) ==
    /\ RefundResult(caller, b) = Ok
    /\ escrows' = SetStatus(b, "Refunded")
    /\ bal' = Transfer(Contract, RefundRecipient(caller, b), PayoutAmount(b))
    /\ paid' = [paid EXCEPT ![b] = @ + 1]
    /\ closer' = caller
    /\ UNCHANGED <<admin, token, roles, paused, now, modal>>
    /\ UNCHANGED progVars

get_escrow_info(b) == escrows[b]
get_balance == bal[Contract]

\* -------------------------------------------------------- program escrow
program_initialized == program.authorized_key # NoAddr
ProgramGuard == IF program_initialized THEN Ok ELSE NotInitialized
\* Mutant: init_program never rejects.
ProgramInitGuardOff == Ok
ProgramInitGuard == IF program_initialized THEN AlreadyInitialized ELSE Ok

InitProgramResult == ProgramInitGuard

init_program(caller, key, t) ==
    /\ InitProgramResult = Ok
    /\ program' = [authorized_key |-> key, token |-> t, remaining_balance |-> 0]
    /\ UNCHANGED <<admin, token, roles, paused, now, escrows, bal, paid, closer, modal>>
    /\ UNCHANGED <<payout_history, schedules, limits, locked_log, paid_log, transfers>>

get_program_info == program
get_remaining_balance == program.remaining_balance

\* checked_add: the sum, or no value when it leaves the integer range.
Overflow == [ok |-> FALSE, val |-> 0]
Checked(v) == [ok |-> TRUE, val |-> v]
\* Mutant: the addition wraps around instead of aborting.
wrapping_add(a, b) == Checked(((a + b + IntMax + 1) % (2 * IntMax + 2)) - IntMax - 1)
checked_add(a, b) == IF a + b > IntMax \/ a + b < 0 - IntMax - 1 THEN Overflow ELSE Checked(a + b)

\* The batch total, accumulated entry by entry with checked_add.
RECURSIVE total_payout(_, _)
total_payout(amounts, acc) ==
    IF ~acc.ok \/ amounts = <<>> THEN acc
    ELSE total_payout(Tail(amounts), checked_add(acc.val, Head(amounts)))

BatchTotal(amounts) == total_payout(amounts, Checked(0))

\* lock_program_funds: anyone may add funds, which come from the caller.
AddGuard(amount) ==
    IF checked_add(program.remaining_balance, amount).ok THEN Ok ELSE ArithmeticOverflow

LockProgramResult(caller, amount) ==
    AndThen(PauseGuard, AndThen(ProgramGuard, AndThen(AmountGuard(amount), AndThen(AddGuard(amount), TokenGuard(caller, amount)))))

SetRemaining(v) == [program EXCEPT !.remaining_balance = v]

lock_program_funds(caller, amount) ==
    /\ LockProgramResult(caller, amount) = Ok
    /\ Len(locked_log) < MaxLocks
    /\ program' = SetRemaining(program.remaining_balance + amount)
    /\ bal' = Transfer(caller, Contract, amount)
    /\ locked_log' = Append(locked_log, amount)
    /\ UNCHANGED <<admin, token, roles, paused, now, escrows, paid, closer, modal>>
    /\ UNCHANGED <<payout_history, schedules, limits, paid_log, transfers>>

\* Payouts are authorized by the program's payout key, or by the Operator
\* or Admin role.
\* Mutant: any caller that holds a role may pay out.
PayoutAuthAnyRole(caller) ==
    IF (program_initialized /\ caller = program.authorized_key) \/ roles[caller] \in Roles
    THEN Ok ELSE Unauthorized
\* Mutant: payouts are open to every caller.
PayoutAuthOpen(caller) == Ok
PayoutAuth(caller) ==
    IF program_initialized /\ caller = program.authorized_key THEN Ok ELSE require_operator(caller)

\* Mutant: the balance check lets a payout of one unit too many through.
BalanceGuardOffByOne(amount) ==
    IF amount > program.remaining_balance + 1 THEN InsufficientBalance ELSE Ok
BalanceGuard(amount) ==
    IF amount > program.remaining_balance THEN InsufficientBalance ELSE Ok

\* Mutant: the entry records the balance from before the payout.
HistoryEntryStale(recipients, amounts, balance) ==
    [recipients |-> recipients, amounts |-> amounts, timestamp |-> now,
     balance |-> program.remaining_balance]
HistoryEntry(recipients, amounts, balance) ==
    [recipients |-> recipients, amounts |-> amounts, timestamp |-> now, balance |-> balance]

\* Mutant: the per-transaction cap is not enforced.
CapGuardOff(amount) == Ok
CapGuard(amount) ==
    IF amount > limits.max_payout_per_transaction THEN PayoutCapExceeded ELSE Ok

\* Mutant: a payout's amount is not validated.
PayoutAmountGuardOff(amount) == Ok
\* A payout's amount is validated like every amount: it must be positive.
PayoutAmountGuard(amount) == AmountGuard(amount)

\* Mutant: the caller's authorization is checked before the pause flag.
SinglePayoutResultAuthFirst(caller, recipient, amount) ==
    AndThen(PayoutAuth(caller), AndThen(PauseGuard, AndThen(ProgramGuard,
    AndThen(PayoutAmountGuard(amount), AndThen(BalanceGuard(amount), CapGuard(amount))))))
SinglePayoutResult(caller, recipient, amount) ==
    AndThen(PauseGuard, AndThen(PayoutAuth(caller), AndThen(ProgramGuard,
    AndThen(PayoutAmountGuard(amount), AndThen(BalanceGuard(amount), CapGuard(amount))))))

single_payout(caller, recipient, amount) ==
    /\ SinglePayoutResult(caller, recipient, amount) = Ok
    /\ Len(paid_log) < MaxPayouts
    /\ program' = SetRemaining(program.remaining_balance - amount)
    /\ payout_history' = Append(payout_history, HistoryEntry(<<recipient>>, <<amount>>, program.remaining_balance - amount))
    /\ bal' = Transfer(Contract, recipient, amount)
    /\ paid_log' = Append(paid_log, amount)
    /\ UNCHANGED <<admin, token, roles, paused, now, escrows, paid, closer, modal>>
    /\ UNCHANGED <<schedules, limits, locked_log, transfers>>

\* batch_payout: the whole batch is validated, then state is written, then
\* every recipient is paid.
LengthGuard(recipients, amounts) ==
    IF Len(recipients) # Len(amounts) THEN BatchLengthMismatch ELSE Ok
\* Mutant: a batch of exactly the maximum size is turned away too.
SizeGuardStrict(recipients) ==
    IF Len(recipients) >= limits.max_batch_size THEN BatchTooLarge ELSE Ok
SizeGuard(recipients) ==
    IF Len(recipients) > limits.max_batch_size THEN BatchTooLarge ELSE Ok
\* The total is computed first, with checked additions, and then compared
\* with the remaining balance.
TotalGuard(amounts) ==
    LET total == BatchTotal(amounts)
    IN IF ~total.ok THEN ArithmeticOverflow ELSE BalanceGuard(total.val)

\* Every amount of a batch is validated.
BatchAmountsGuard(amounts) ==
    IF \E i \in DOMAIN amounts : PayoutAmountGuard(amounts[i]) # Ok THEN InvalidAmount ELSE Ok

BatchPayoutResult(caller, recipients, amounts) ==
    AndThen(PauseGuard, AndThen(PayoutAuth(caller), AndThen(ProgramGuard,
    AndThen(LengthGuard(recipients, amounts), AndThen(SizeGuard(recipients),
    AndThen(BatchAmountsGuard(amounts), TotalGuard(amounts)))))))

\* What the entries of a batch pay to address a.
RECURSIVE BatchCredit(_, _, _)
BatchCredit(recipients, amounts, a) ==
    IF recipients = <<>> \/ amounts = <<>> THEN 0
    ELSE (IF Head(recipients) = a THEN Head(amounts) ELSE 0)
         + BatchCredit(Tail(recipients), Tail(amounts), a)

\* Mutant: only the first entry of the batch is paid.
BatchTransferFirstOnly(recipients, amounts) ==
    IF recipients = <<>> THEN bal ELSE Transfer(Contract, Head(recipients), Head(amounts))
BatchTransfer(recipients, amounts) ==
    [a \in DOMAIN bal |->
        IF a = Contract THEN bal[a] - BatchTotal(amounts).val
        ELSE bal[a] + BatchCredit(recipients, amounts, a)]

batch_payout(caller, recipients, amounts) ==
    /\ BatchPayoutResult(caller, recipients, amounts) = Ok
    /\ Len(paid_log) < MaxPayouts
    /\ LET total == BatchTotal(amounts).val
       IN /\ program' = SetRemaining(program.remaining_balance - total)
          /\ payout_history' = Append(payout_history,
                HistoryEntry(recipients, amounts, program.remaining_balance - total))
          /\ paid_log' = Append(paid_log, total)
    /\ bal' = BatchTransfer(recipients, amounts)
    /\ UNCHANGED <<admin, token, roles, paused, now, escrows, paid, closer, modal>>
    /\ UNCHANGED <<schedules, limits, locked_log, transfers>>

\* Release schedules: created by an Operator or Admin, released by anyone
\* once unlocked.
Schedule(r, m, u, st) == [recipient |-> r, amount |-> m, unlock |-> u, status |-> st]
HasSchedule(s) == schedules[s].status \in {"Pending", "Consumed"}
SlotGuard(s) == IF HasSchedule(s) THEN AlreadyInitialized ELSE Ok

\* Mutant: the caller's role is not checked.
CreateScheduleResultOpen(caller, s, amount) ==
    AndThen(ProgramGuard, AndThen(SlotGuard(s), AmountGuard(amount)))
CreateScheduleResult(caller, s, amount) ==
    AndThen(require_operator(caller), AndThen(ProgramGuard, AndThen(SlotGuard(s), AmountGuard(amount))))

create_release_schedule(caller, s, recipient, amount, unlock) ==
    /\ CreateScheduleResult(caller, s, amount) = Ok
    /\ schedules' = [schedules EXCEPT ![s] = Schedule(recipient, amount, unlock, "Pending")]
    /\ UNCHANGED <<admin, token, roles, paused, now, escrows, bal, paid, closer, modal>>
    /\ UNCHANGED <<program, payout_history, limits, locked_log, paid_log, transfers>>

ScheduleLookup(s) == IF HasSchedule(s) THEN Ok ELSE ScheduleNotFound
ConsumedGuard(s) == IF schedules[s].status = "Pending" THEN Ok ELSE FundsNotLocked
\* Mutant: the unlock time is not looked at.
UnlockGuardOff(s) == Ok
UnlockGuard(s) == IF now < schedules[s].unlock THEN ScheduleNotYetUnlocked ELSE Ok

\* Mutant: the scheduled release does not look at the remaining balance.
ReleaseScheduleResultNoBalance(caller, s) ==
    AndThen(PauseGuard, AndThen(ProgramGuard, AndThen(ScheduleLookup(s), AndThen(ConsumedGuard(s),
    UnlockGuard(s)))))
\* Mutant: the scheduled release is not behind the pause switch.
ReleaseScheduleResultNoPause(caller, s) ==
    AndThen(ProgramGuard, AndThen(ScheduleLookup(s), AndThen(ConsumedGuard(s),
    AndThen(UnlockGuard(s), BalanceGuard(schedules[s].amount)))))
ReleaseScheduleResult(caller, s) ==
    AndThen(PauseGuard, AndThen(ProgramGuard, AndThen(ScheduleLookup(s), AndThen(ConsumedGuard(s),
    AndThen(UnlockGuard(s), BalanceGuard(schedules[s].amount))))))

release_prog_schedule_automatic(caller, s) ==
    /\ ReleaseScheduleResult(caller, s) = Ok
    /\ Len(paid_log) < MaxPayouts
    /\ schedules' = [schedules EXCEPT ![s].status = "Consumed"]
    /\ program' = SetRemaining(program.remaining_balance - schedules[s].amount)
    /\ bal' = Transfer(Contract, schedules[s].recipient, schedules[s].amount)
    /\ paid_log' = Append(paid_log, schedules[s].amount)
    /\ UNCHANGED <<admin, token, roles, paused, now, escrows, paid, closer, modal>>
    /\ UNCHANGED <<payout_history, limits, locked_log, transfers>>

\* Configuration: only Admin changes the limits, and the batch size limit
\* never goes past the hard ceiling.
CeilingGuard(mb) == IF mb > MAX_BATCH_SIZE THEN BatchTooLarge ELSE Ok
UpdateLimitsResult(caller, mb) == AndThen(require_admin(caller), CeilingGuard(mb))

update_limits(caller, mb) ==
    /\ UpdateLimitsResult(caller, mb) = Ok
    /\ limits' = [limits EXCEPT !.max_batch_size = mb]
    /\ UNCHANGED <<admin, token, roles, paused, now, escrows, bal, paid, closer, modal>>
    /\ UNCHANGED <<program, payout_history, schedules, locked_log, paid_log, transfers>>

UpdateCapResult(caller, cap) == AndThen(require_admin(caller), AmountGuard(cap))

update_payout_cap(caller, cap) ==
    /\ UpdateCapResult(caller, cap) = Ok
    /\ limits' = [limits EXCEPT !.max_payout_per_transaction = cap]
    /\ UNCHANGED <<admin, token, roles, paused, now, escrows, bal, paid, closer, modal>>
    /\ UNCHANGED <<program, payout_history, schedules, locked_log, paid_log, transfers>>

\* The host's ledger clock.
Tick ==
    /\ now < MaxTime
    /\ now' = now + 1
    /\ UNCHANGED <<admin, token, roles, paused, escrows, bal, paid, closer, modal>>
    /\ UNCHANGED progVars

\* The contract right after initialize(1, 1) and the admin's grants: address 1
\* is the admin, address 2 holds any role or none, every further address
\* holds none; nothing is locked yet.
BountyInit ==
    /\ admin = 1
    /\ token = 1
    /\ roles \in {r \in [Addr -> Roles \cup {NoRole}] : r[1] = "Admin" /\ \A a \in Addr : a > 2 => r[a] = NoRole}
    /\ paused = FALSE
    /\ now = 0
    /\ escrows = [b \in BountyIds |-> NoEscrow]
    /\ bal = [a \in Addr \cup {Contract} |-> IF a = Contract THEN 0 ELSE InitBal]
    /\ paid = [b \in BountyIds |-> 0]
    /\ closer = NoAddr
    /\ modal = NoModal
    /\ ProgInit

BountyNext ==
    \/ \E c \in Addr, d \in Addr, b \in BountyIds, m \in Amounts, dl \in Deadlines :
          lock_funds(c, d, b, m, dl)
    \/ \E c \in Addr, b \in BountyIds, k \in Addr : release_funds(c, b, k)
    \/ \E c \in Addr, b \in BountyIds : refund(c, b)
    \/ \E c \in Addr : pause_contract(c)
    \/ \E c \in Addr : unpause_contract(c)
    \/ Tick

\* Inputs of the program escrow.
SmallSeqs(S) == UNION {[1..n -> S] : n \in 0..MaxBatchLen}
ProgAmounts == {0, MaxAmount, IntMax}
PayAmounts == {1, IntMax}
\* Payout amounts around a cap of one unit.
CapAmounts == {1, MaxAmount, IntMax}
\* Address 1 is the sponsor and never a recipient.
Recipients == Addr \ {1}
\* A batch of n entries of one unit each, going round the recipients.
FullBatch(n) == <<[i \in 1..n |-> 2 + (i % (NumAddr - 1))], [i \in 1..n |-> 1]>>
\* The batches tried: well-formed ones of 1 to MaxBatchLen entries, lists of
\* different lengths and two whose total overflows.
Batches ==
    {<<r, m>> \in SmallSeqs(Recipients) \X SmallSeqs({1}) :
        Len(r) >= 1 /\ Len(r) >= Len(m) /\ (Len(r) = MaxBatchLen => r[1] <= r[2])}
        \cup {<<r, <<IntMax>> >> : r \in {<<2>>}}
        \cup {<<r, <<IntMax, 1>> >> : r \in {<<2, 2>>}}
\* Batches around the size ceiling: one of exactly the maximum size, one with
\* an entry more, and one with an entry more in the recipients only.
BigBatches ==
    {FullBatch(MAX_BATCH_SIZE), FullBatch(MAX_BATCH_SIZE + 1),
     <<FullBatch(MAX_BATCH_SIZE + 1)[1], FullBatch(MAX_BATCH_SIZE)[2]>>}
LimitChoices == {1, MAX_BATCH_SIZE, MAX_BATCH_SIZE + 1}
\* Caps an Admin may try: none (rejected), one unit, and the largest amount.
CapChoices == {0, 1, IntMax}

\* The contract after initialize(1, 1), init_program and the admin's grants:
\* address 1 is the admin and the sponsor holding the funds, address 2 holds
\* Operator, Pauser or Viewer, address 3 holds no role, and the program's
\* payout key is address 3, or address 2 when that one is the Pauser.
ProgramInit ==
    /\ admin = 1
    /\ token = 1
    /\ roles \in {r \in [Addr -> Roles \cup {NoRole}] :
                    /\ r[1] = "Admin"
                    /\ r[2] \in {"Operator", "Pauser", "Viewer"}
                    /\ \A a \in Addr : a > 2 => r[a] = NoRole}
    /\ paused = FALSE
    /\ now = 0
    /\ escrows = [b \in BountyIds |-> NoEscrow]
    /\ bal = [a \in Addr \cup {Contract} |-> IF a = Contract THEN 0 ELSE IF a = 1 THEN IntMax ELSE InitBal]
    /\ paid = [b \in BountyIds |-> 0]
    /\ closer = NoAddr
    /\ modal = NoModal
    /\ program = [authorized_key |-> (IF roles[2] = "Pauser" THEN 2 ELSE 3), token |-> 1, remaining_balance |-> 0]
    /\ payout_history = <<>>
    /\ schedules = [s \in ScheduleIds |-> NoSchedule]
    /\ limits = DefaultLimits
    /\ locked_log = <<>>
    /\ paid_log = <<>>
    /\ transfers = <<>>

ProgramNext ==
    \/ \E c \in Addr, m \in ProgAmounts : lock_program_funds(c, m)
    \/ \E c \in Addr, r \in Recipients, m \in PayAmounts : single_payout(c, r, m)
    \/ \E c \in Addr, bt \in Batches : batch_payout(c, bt[1], bt[2])
    \/ \E c \in Addr, s \in ScheduleIds, r \in {NumAddr}, m \in {0, MaxAmount}, u \in {0, MaxTime} :
          create_release_schedule(c, s, r, m, u)
    \/ \E c \in Addr, s \in ScheduleIds : release_prog_schedule_automatic(c, s)
    \/ \E c \in Addr, mb \in LimitChoices : update_limits(c, mb)
    \/ \E c \in Addr : pause_contract(c)
    \/ \E c \in Addr : unpause_contract(c)
    \/ Tick

ProgramSpec == ProgramInit /\ [][ProgramNext]_vars

\* The program's funding and batch payouts, batches at the size ceiling
\* included, with the limit configuration and the pause switch.
BatchNext ==
    \/ \E c \in Addr, m \in ProgAmounts : lock_program_funds(c, m)
    \/ \E c \in Addr, bt \in Batches \cup BigBatches : batch_payout(c, bt[1], bt[2])
    \/ \E c \in Addr, mb \in LimitChoices : update_limits(c, mb)
    \/ \E c \in Addr : pause_contract(c)
    \/ \E c \in Addr : unpause_contract(c)

BatchSpec == ProgramInit /\ [][BatchNext]_vars

\* The program's funding and single payouts under a configurable
\* per-transaction cap, with the pause switch and the clock.
PayoutNext ==
    \/ \E c \in Addr, m \in ProgAmounts : lock_program_funds(c, m)
    \/ \E c \in Addr, r \in Recipients, m \in CapAmounts : single_payout(c, r, m)
    \/ \E c \in Addr, cap \in CapChoices : update_payout_cap(c, cap)
    \/ \E c \in Addr : pause_contract(c)
    \/ \E c \in Addr : unpause_contract(c)
    \/ Tick

PayoutSpec == ProgramInit /\ [][PayoutNext]_vars

\* Both escrows under the pause switch: bounty locks and releases, program
\* funding and payouts.
PauseNext ==
    \/ \E c \in Addr, d \in Addr, b \in BountyIds, m \in {1}, dl \in {MaxTime} :
          lock_funds(c, d, b, m, dl)
    \/ \E c \in Addr, b \in BountyIds, k \in {NumAddr} : release_funds(c, b, k)
    \/ \E c \in Addr, m \in {MaxAmount} : lock_program_funds(c, m)
    \/ \E c \in Addr, r \in {NumAddr}, m \in {1} : single_payout(c, r, m)
    \/ \E c \in Addr, bt \in Batches : batch_payout(c, bt[1], bt[2])
    \/ \E c \in Addr : pause_contract(c)
    \/ \E c \in Addr : unpause_contract(c)

PauseSpec == ProgramInit /\ [][PauseNext]_vars

\* Mutant: an aborted invocation is not rolled back; the debit of the
\* contract's token balance it had begun stays written.
InvokeNoRollback(result, effect) ==
    IF result = Ok THEN effect
    ELSE /\ bal' = [bal EXCEPT ![Contract] = 0]
         /\ UNCHANGED <<admin, token, roles, paused, now, escrows, paid, closer, modal>>
         /\ UNCHANGED progVars
\* One invocation of an entry point: its effect when every check passes,
\* and otherwise the abort of the whole invocation, which leaves no write.
Invoke(result, effect) == IF result = Ok THEN effect ELSE UNCHANGED vars

\* The bounty escrow with deadlines the clock reaches, under fair scheduling:
\* the clock advances, a refund that is enabled again and again is
\* eventually made, and a paused contract is eventually unpaused.
LiveNext ==
    \/ \E c \in Addr, d \in Addr, b \in BountyIds, m \in {1}, dl \in 0..MaxTime :
          lock_funds(c, d, b, m, dl)
    \/ \E c \in Addr, b \in BountyIds, k \in {NumAddr} : release_funds(c, b, k)
    \/ \E c \in Addr, b \in BountyIds : refund(c, b)
    \/ \E c \in Addr : pause_contract(c)
    \/ \E c \in Addr : unpause_contract(c)
    \/ Tick

Fairness ==
    /\ WF_vars(Tick)
    /\ WF_vars(\E c \in Addr : unpause_contract(c))
    /\ \A b \in BountyIds : SF_vars(\E c \in Addr : refund(c, b))

LiveSpec == BountyInit /\ [][LiveNext]_vars /\ Fairness

\* The permissionless, time-gated entry points of both escrows under the
\* pause switch: refunds of bounties and releases of schedules.
TimeGateNext ==
    \/ \E c \in Addr, d \in Addr, b \in BountyIds, m \in {1}, dl \in 0..MaxTime :
          lock_funds(c, d, b, m, dl)
    \/ \E c \in Addr, b \in BountyIds : refund(c, b)
    \/ \E c \in Addr, m \in {MaxAmount} : lock_program_funds(c, m)
    \/ \E c \in Addr, s \in ScheduleIds, r \in {NumAddr}, m \in {1}, u \in 0..MaxTime :
          create_release_schedule(c, s, r, m, u)
    \/ \E c \in Addr, s \in ScheduleIds : release_prog_schedule_automatic(c, s)
    \/ \E c \in Addr : pause_contract(c)
    \/ \E c \in Addr : unpause_contract(c)
    \/ Tick

TimeGateSpec == ProgramInit /\ [][TimeGateNext]_vars

\* ------------------------------------------ the handlers step by step
\* A fund-moving handler runs in two parts: it validates and writes its
\* state change, and then it makes its token transfers one after the other.
\* Invocations do not interleave: a handler starts only when no transfer of
\* an earlier invocation is outstanding.
PendingTransfer(to, amount, kind, id) == [to |-> to, amount |-> amount, kind |-> kind, id |-> id]
Idle == transfers = <<>>

\* Mutant: the status is not written before the transfer is made.
PersistStatusLate(b, s) == escrows
\* escrow.status = ...; env.storage().persistent().set(&key, &escrow)
PersistStatus(b, s) == SetStatus(b, s)

persist_release_funds(caller, b, contributor) ==
    /\ Idle
    /\ ReleaseResult(caller, b) = Ok
    /\ escrows' = PersistStatus(b, "Released")
    /\ paid' = [paid EXCEPT ![b] = @ + 1]
    /\ closer' = caller
    /\ transfers' = <<PendingTransfer(ReleaseRecipient(caller, contributor), PayoutAmount(b), "bounty", b)>>
    /\ UNCHANGED <<admin, token, roles, paused, now, bal, modal>>
    /\ UNCHANGED <<program, payout_history, schedules, limits, locked_log, paid_log>>

persist_refund(caller, b) ==
    /\ Idle
    /\ RefundResult(caller, b) = Ok
    /\ escrows' = PersistStatus(b, "Refunded")
    /\ paid' = [paid EXCEPT ![b] = @ + 1]
    /\ closer' = caller
    /\ transfers' = <<PendingTransfer(RefundRecipient(caller, b), PayoutAmount(b), "bounty", b)>>
    /\ UNCHANGED <<admin, token, roles, paused, now, bal, modal>>
    /\ UNCHANGED <<program, payout_history, schedules, limits, locked_log, paid_log>>

persist_single_payout(caller, recipient, amount) ==
    /\ Idle
    /\ SinglePayoutResult(caller, recipient, amount) = Ok
    /\ Len(paid_log) < MaxPayouts
    /\ program' = SetRemaining(program.remaining_balance - amount)
    /\ payout_history' = Append(payout_history, HistoryEntry(<<recipient>>, <<amount>>, program.remaining_balance - amount))
    /\ paid_log' = Append(paid_log, amount)
    /\ transfers' = <<PendingTransfer(recipient, amount, "payout", 0)>>
    /\ UNCHANGED <<admin, token, roles, paused, now, escrows, bal, paid, closer, modal>>
    /\ UNCHANGED <<schedules, limits, locked_log>>

persist_batch_payout(caller, recipients, amounts) ==
    /\ Idle
    /\ BatchPayoutResult(caller, recipients, amounts) = Ok
    /\ Len(paid_log) < MaxPayouts
    /\ LET total == BatchTotal(amounts).val
       IN /\ program' = SetRemaining(program.remaining_balance - total)
          /\ payout_history' = Append(payout_history,
                HistoryEntry(recipients, amounts, program.remaining_balance - total))
          /\ paid_log' = Append(paid_log, total)
    /\ transfers' = [i \in 1..Len(recipients) |-> PendingTransfer(recipients[i], amounts[i], "payout", 0)]
    /\ UNCHANGED <<admin, token, roles, paused, now, escrows, bal, paid, closer, modal>>
    /\ UNCHANGED <<schedules, limits, locked_log>>

persist_release_prog_schedule(caller, s) ==
    /\ Idle
    /\ ReleaseScheduleResult(caller, s) = Ok
    /\ Len(paid_log) < MaxPayouts
    /\ schedules' = [schedules EXCEPT ![s].status = "Consumed"]
    /\ program' = SetRemaining(program.remaining_balance - schedules[s].amount)
    /\ paid_log' = Append(paid_log, schedules[s].amount)
    /\ transfers' = <<PendingTransfer(schedules[s].recipient, schedules[s].amount, "schedule", s)>>
    /\ UNCHANGED <<admin, token, roles, paused, now, escrows, bal, paid, closer, modal>>
    /\ UNCHANGED <<payout_history, limits, locked_log>>

\* token_client.transfer(&contract, &recipient, &amount)
token_client_transfer ==
    /\ ~Idle
    /\ bal' = Transfer(Contract, Head(transfers).to, Head(transfers).amount)
    /\ transfers' = Tail(transfers)
    /\ UNCHANGED <<admin, token, roles, paused, now, escrows, paid, closer, modal>>
    /\ UNCHANGED <<program, payout_history, schedules, limits, locked_log, paid_log>>

StepNext ==
    \/ \E c \in Addr, d \in {1}, b \in BountyIds, m \in {1}, dl \in {0} :
          Idle /\ lock_funds(c, d, b, m, dl)
    \/ \E c \in Addr, m \in {MaxAmount} : Idle /\ lock_program_funds(c, m)
    \/ \E c \in Addr, s \in ScheduleIds, r \in {NumAddr}, m \in {1}, u \in {0} :
          Idle /\ create_release_schedule(c, s, r, m, u)
    \/ \E c \in Addr, b \in BountyIds, k \in {NumAddr} : persist_release_funds(c, b, k)
    \/ \E c \in Addr, b \in BountyIds : persist_refund(c, b)
    \/ \E c \in Addr, r \in {NumAddr}, m \in {1} : persist_single_payout(c, r, m)
    \/ \E c \in Addr, bt \in Batches : persist_batch_payout(c, bt[1], bt[2])
    \/ \E c \in Addr, s \in ScheduleIds : persist_release_prog_schedule(c, s)
    \/ token_client_transfer

StepSpec == ProgramInit /\ [][StepNext]_vars

\* Payout amounts and batches around zero: batches of two entries with
\* amounts of minus one, zero and one unit, and a batch of one unit.
SignedAmounts == {0 - 1, 0, 1}
SignedBatches ==
    {<< <<2, NumAddr>>, m >> : m \in [1..2 -> SignedAmounts]} \cup {<< <<NumAddr>>, <<1>> >>}
NonPositive(amounts) == \E i \in DOMAIN amounts : amounts[i] <= 0

\* The program's funding and payouts with amounts around zero, under the
\* pause switch.
AmountNext ==
    \/ \E c \in Addr, m \in {MaxAmount} : lock_program_funds(c, m)
    \/ \E c \in Addr, r \in Recipients, m \in SignedAmounts : single_payout(c, r, m)
    \/ \E c \in Addr, bt \in SignedBatches : batch_payout(c, bt[1], bt[2])
    \/ \E c \in Addr : pause_contract(c)
    \/ \E c \in Addr : unpause_contract(c)

AmountSpec == ProgramInit /\ [][AmountNext]_vars

\* ------------------------------------------------- NewProjectSetupModal
\* The ecosystem names tried, and String.prototype.trim on them.
EcosystemNames == {"", " ", "stellar"}
trim(str) == IF str = " " THEN "" ELSE str

\* if (!isOpen || !project) return null
Rendered == modal.isOpen /\ modal.project # NoProject

\* The dialog mounted and opened for a pending project: the effect on
\* project?.id has copied the project's ecosystem name, or '' for null, and
\* the effect on isOpen has started loadEcosystems.
ModalInit ==
    /\ admin = NoAddr
    /\ token = NoToken
    /\ roles = [a \in Addr |-> NoRole]
    /\ paused = FALSE
    /\ now = 0
    /\ escrows = [b \in BountyIds |-> NoEscrow]
    /\ bal = [a \in Addr \cup {Contract} |-> IF a = Contract THEN 0 ELSE InitBal]
    /\ paid = [b \in BountyIds |-> 0]
    /\ closer = NoAddr
    /\ ProgInit
    /\ \E eco \in EcosystemNames :
          modal = [NoModal EXCEPT !.isOpen = TRUE, !.project = 1, !.ecosystemName = eco,
                                  !.isLoadingEcosystems = TRUE]

\* loadEcosystems, from its await on: the list arrives, or the request
\* fails and the error is shown.
loadEcosystems(ok) ==
    /\ modal.isLoadingEcosystems
    /\ modal' = [modal EXCEPT !.isLoadingEcosystems = FALSE,
                              !.error = IF ok THEN @ ELSE "Failed to load ecosystems"]
    /\ UNCHANGED contractVars

\* The ecosystem select's onChange; the select is disabled while submitting.
setEcosystemName(eco) ==
    /\ Rendered
    /\ ~modal.isSubmitting
    /\ modal' = [modal EXCEPT !.ecosystemName = eco]
    /\ UNCHANGED contractVars

\* handleSubmit up to its await; the submit button is disabled while
\* submitting and while the success message shows.
handleSubmit ==
    /\ Rendered
    /\ ~(modal.isSubmitting \/ modal.success)
    /\ modal.updateProjectMetadata < MaxCalls
    /\ IF trim(modal.ecosystemName) = ""
       THEN modal' = [modal EXCEPT !.error = "Ecosystem is required", !.success = FALSE]
       ELSE modal' = [modal EXCEPT !.error = NoError, !.success = FALSE,
                                   !.isSubmitting = TRUE, !.saving = TRUE,
                                   !.updateProjectMetadata = @ + 1]
    /\ UNCHANGED contractVars

\* updateProjectMetadata resolved: setSuccess(true), setTimeout(..., 800),
\* and the finally block's setIsSubmitting(false).
SavedState ==
    [modal EXCEPT !.saving = FALSE, !.success = TRUE, !.timers = @ + 1,
                  !.isSubmitting = FALSE]

handleSubmit_resolved ==
    /\ modal.saving
    /\ modal' = SavedState
    /\ UNCHANGED contractVars

\* updateProjectMetadata rejected: the catch block, then the finally block.
handleSubmit_rejected ==
    /\ modal.saving
    /\ modal' = [modal EXCEPT !.saving = FALSE, !.error = "Failed to save project details",
                              !.isSubmitting = FALSE]
    /\ UNCHANGED contractVars

\* The 800 ms timer fires: onSaved(); setSuccess(false). Nothing cancels it.
timeout_fires ==
    /\ modal.timers > 0
    /\ modal' = [modal EXCEPT !.timers = @ - 1, !.onSaved = @ + 1, !.success = FALSE]
    /\ UNCHANGED contractVars

\* handleSkip, from the backdrop (never disabled) or a skip button.
handleSkip ==
    /\ Rendered
    /\ modal.onSkip < MaxCalls
    /\ IF ~modal.isSubmitting
       THEN modal' = [modal EXCEPT !.error = NoError, !.onSkip = @ + 1, !.onClose = @ + 1]
       ELSE UNCHANGED modal
    /\ UNCHANGED contractVars

\* The parent's reaction to a callback: it closes the dialog.
parent_closes ==
    /\ modal.isOpen
    /\ modal.onSaved + modal.onSkip + modal.onClose > 0
    /\ modal' = [modal EXCEPT !.isOpen = FALSE]
    /\ UNCHANGED contractVars

ModalNext ==
    \/ \E ok \in BOOLEAN : loadEcosystems(ok)
    \/ \E eco \in EcosystemNames : setEcosystemName(eco)
    \/ handleSubmit
    \/ handleSubmit_resolved
    \/ handleSubmit_rejected
    \/ timeout_fires
    \/ handleSkip
    \/ parent_closes

ModalSpec == ModalInit /\ [][ModalNext]_vars

\* A batch that can be paid and one whose lists differ in length.
AtomicBatches == {<< <<NumAddr>>, <<1>> >>, << <<2, 2>>, <<1>> >>}

\* Every entry point of both escrows invoked with arguments that pass and
\* arguments that fail.
AtomicNext ==
    \/ \E c \in Addr, a \in {1}, t \in {1} :
          Invoke(InitializeResult, initialize(c, a, t))
    \/ \E c \in Addr, d \in {1}, b \in {1}, m \in {0, 1}, dl \in {MaxTime} :
          Invoke(LockResult(c, d, b, m), lock_funds(c, d, b, m, dl))
    \/ \E c \in Addr, b \in BountyIds, k \in {NumAddr} :
          Invoke(ReleaseResult(c, b), release_funds(c, b, k))
    \/ \E c \in Addr, b \in BountyIds : Invoke(RefundResult(c, b), refund(c, b))
    \/ \E c \in Addr, a \in {2}, r \in {"Operator"} :
          Invoke(GrantResult(c), grant_role(c, a, r))
    \/ \E c \in Addr, a \in {2} : Invoke(RevokeResult(c), revoke_role(c, a))
    \/ \E c \in Addr : Invoke(PauseResult(c), pause_contract(c))
    \/ \E c \in Addr : Invoke(UnpauseResult(c), unpause_contract(c))
    \/ \E c \in Addr, k \in {NumAddr}, t \in {1} :
          Invoke(InitProgramResult, init_program(c, k, t))
    \/ \E c \in Addr, m \in {0, MaxAmount} :
          Invoke(LockProgramResult(c, m), lock_program_funds(c, m))
    \/ \E c \in Addr, r \in {NumAddr}, m \in PayAmounts :
          Invoke(SinglePayoutResult(c, r, m), single_payout(c, r, m))
    \/ \E c \in Addr, bt \in AtomicBatches :
          Invoke(BatchPayoutResult(c, bt[1], bt[2]), batch_payout(c, bt[1], bt[2]))
    \/ \E c \in Addr, s \in ScheduleIds, r \in {NumAddr}, m \in {0, 1}, u \in {MaxTime} :
          Invoke(CreateScheduleResult(c, s, m), create_release_schedule(c, s, r, m, u))
    \/ \E c \in Addr, s \in ScheduleIds :
          Invoke(ReleaseScheduleResult(c, s), release_prog_schedule_automatic(c, s))
    \/ \E c \in Addr, mb \in {MAX_BATCH_SIZE, MAX_BATCH_SIZE + 1} :
          Invoke(UpdateLimitsResult(c, mb), update_limits(c, mb))
    \/ \E c \in Addr, cap \in {0, IntMax} :
          Invoke(UpdateCapResult(c, cap), update_payout_cap(c, cap))
    \/ Tick

AtomicSpec == ProgramInit /\ [][AtomicNext]_vars

\* The contract after initialize(1, 1) and the grant of Operator to address
\* 2, before any program exists.
SetupInit ==
    /\ admin = 1
    /\ token = 1
    /\ roles = [a \in Addr |-> IF a = 1 THEN "Admin" ELSE IF a = 2 THEN "Operator" ELSE NoRole]
    /\ paused = FALSE
    /\ now = 0
    /\ escrows = [b \in BountyIds |-> NoEscrow]
    /\ bal = [a \in Addr \cup {Contract} |-> IF a = Contract THEN 0 ELSE InitBal]
    /\ paid = [b \in BountyIds |-> 0]
    /\ closer = NoAddr
    /\ modal = NoModal
    /\ ProgInit

\* The life of a program from its initialisation: funding, payouts and
\* schedules.
SetupNext ==
    \/ \E c \in Addr, k \in Addr, t \in Tokens : init_program(c, k, t)
    \/ \E c \in Addr, m \in {1, MaxAmount} : lock_program_funds(c, m)
    \/ \E c \in Addr, r \in Recipients, m \in {1} : single_payout(c, r, m)
    \/ \E c \in Addr, s \in ScheduleIds, r \in {NumAddr}, m \in {1}, u \in {0} :
          create_release_schedule(c, s, r, m, u)
    \/ \E c \in Addr, s \in ScheduleIds : release_prog_schedule_automatic(c, s)

SetupSpec == SetupInit /\ [][SetupNext]_vars

Next ==
    \/ \E c \in Addr, a \in Addr, t \in Tokens : initialize(c, a, t)
    \/ \E c \in Addr, d \in Addr, b \in BountyIds, m \in Amounts, dl \in Deadlines :
          lock_funds(c, d, b, m, dl)
    \/ \E c \in Addr, b \in BountyIds, k \in Addr : release_funds(c, b, k)
    \/ \E c \in Addr, b \in BountyIds : refund(c, b)
    \/ \E c \in Addr, a \in Addr, r \in Roles : grant_role(c, a, r)
    \/ \E c \in Addr, a \in Addr : revoke_role(c, a)
    \/ \E c \in Addr : pause_contract(c)
    \/ \E c \in Addr : unpause_contract(c)
    \/ \E c \in Addr, k \in Addr, t \in Tokens : init_program(c, k, t)
    \/ \E c \in Addr, m \in ProgAmounts : lock_program_funds(c, m)
    \/ \E c \in Addr, r \in Recipients, m \in PayAmounts : single_payout(c, r, m)
    \/ \E c \in Addr, bt \in Batches : batch_payout(c, bt[1], bt[2])
    \/ \E c \in Addr, s \in ScheduleIds, r \in {NumAddr}, m \in {0, MaxAmount}, u \in {0, MaxTime} :
          create_release_schedule(c, s, r, m, u)
    \/ \E c \in Addr, s \in ScheduleIds : release_prog_schedule_automatic(c, s)
    \/ \E c \in Addr, mb \in LimitChoices : update_limits(c, mb)
    \/ \E c \in Addr, cap \in CapChoices : update_payout_cap(c, cap)
    \/ Tick

Spec == Init /\ [][Next]_vars

BountySpec == BountyInit /\ [][BountyNext]_vars

\* Governance: initialisation, role management and the pause switch.
GovNext ==
    \/ \E c \in Addr, a \in Addr, t \in Tokens : initialize(c, a, t)
    \/ \E c \in Addr, a \in Addr, r \in Roles : grant_role(c, a, r)
    \/ \E c \in Addr, a \in Addr : revoke_role(c, a)
    \/ \E c \in Addr : pause_contract(c)
    \/ \E c \in Addr : unpause_contract(c)
    \/ \E c \in Addr, k \in Addr, t \in Tokens : init_program(c, k, t)

GovSpec == Init /\ [][GovNext]_vars

\* ---------------------------------------------------------------- claims
Locked(b) == escrows[b].status = "Locked"
Terminal(b) == escrows[b].status \in {"Released", "Refunded"}

RECURSIVE SumLocked(_)
SumLocked(S) ==
    IF S = {} THEN 0
    ELSE LET b == CHOOSE x \in S : TRUE
         IN (IF Locked(b) THEN escrows[b].amount ELSE 0) + SumLocked(S \ {b})

\* C1 (as stated): once a bounty is Released or Refunded its record never
\* changes again, and every later releaseFunds or refund on it fails with
\* FundsNotLocked, leaving the records and all token balances unchanged.
C1_AsStated ==
    [][\A b \in BountyIds : Terminal(b) =>
          /\ escrows'[b] = escrows[b]
          /\ \A c \in Addr :
                /\ ReleaseResult(c, b) = FundsNotLocked
                /\ RefundResult(c, b) = FundsNotLocked
                /\ refund(c, b) => UNCHANGED <<escrows, bal>>
                /\ \A k \in Addr : release_funds(c, b, k) => UNCHANGED <<escrows, bal>>]_vars

\* C1 (amended): once a bounty is Released or Refunded its record never changes
\* again, and every later releaseFunds or refund on it fails, leaving the
\* records and all token balances unchanged; the error is FundsNotLocked
\* whenever the contract is not paused and, for releaseFunds, the caller holds
\* Admin (ContractPaused or Unauthorized is reported first otherwise).
C1_Terminal ==
    [][\A b \in BountyIds : Terminal(b) =>
          /\ escrows'[b] = escrows[b]
          /\ \A c \in Addr :
                /\ ReleaseResult(c, b) # Ok
                /\ RefundResult(c, b) # Ok
                /\ ~paused => RefundResult(c, b) = FundsNotLocked
                /\ (~paused /\ is_admin(c)) => ReleaseResult(c, b) = FundsNotLocked
                /\ refund(c, b) => UNCHANGED <<escrows, bal>>
                /\ \A k \in Addr : release_funds(c, b, k) => UNCHANGED <<escrows, bal>>]_vars

\* A released bounty whose deadline has passed, on an unpaused contract: the
\* admin's second release and anyone's refund are both rejected.
C1_Witness ==
    \E b \in BountyIds, c \in Addr :
        /\ escrows[b].status = "Released"
        /\ now >= escrows[b].deadline
        /\ ~paused
        /\ ReleaseResult(c, b) = FundsNotLocked
        /\ RefundResult(c, b) = FundsNotLocked

\* C2: however many releaseFunds and refund calls are made on a bounty, by
\* whatever callers and in whatever order, at most one of them succeeds: the
\* bounty's amount leaves custody at most once, and exactly when the bounty
\* reaches Released or Refunded.
C2_NoDoubleDisbursement ==
    \A b \in BountyIds : paid[b] <= 1 /\ (paid[b] = 1 <=> Terminal(b))

\* Both bounties have been paid out, one by release and one by refund.
C2_Witness ==
    \E b1, b2 \in BountyIds :
        /\ escrows[b1].status = "Released" /\ paid[b1] = 1
        /\ escrows[b2].status = "Refunded" /\ paid[b2] = 1

C7_ReleaseEffect ==
    [][\A c \in Addr, b \in BountyIds, k \in Addr : release_funds(c, b, k) =>
          LET amt == escrows[b].amount
          IN /\ Locked(b)
             /\ amt > 0
             /\ escrows' = [escrows EXCEPT ![b] = Escrow(@.depositor, @.amount, @.deadline, "Released")]
             /\ bal'[k] = bal[k] + amt
             /\ bal'[Contract] = bal[Contract] - amt
             /\ \A a \in Addr \ {k} : bal'[a] = bal[a]]_vars

\* A bounty released to a contributor that is neither the caller nor the
\* depositor, while the other bounty is still Locked.
C7_Witness ==
    \E b, b2 \in BountyIds, k \in Addr :
        /\ escrows[b].status = "Released"
        /\ Locked(b2)
        /\ k # closer /\ k # escrows[b].depositor /\ k # escrows[b2].depositor
        /\ bal[k] = InitBal + escrows[b].amount

\* C8: in every reachable state the token balance held by the contract equals
\* the sum of the amounts of the bounties whose status is Locked.
C8_Custody == get_balance = SumLocked(BountyIds)

\* One bounty Locked and backed, the other already paid out.
C8_Witness ==
    \E b, b2 \in BountyIds :
        /\ Locked(b) /\ Terminal(b2)
        /\ escrows[b].amount # escrows[b2].amount
        /\ get_balance = escrows[b].amount

\* C9 (as stated): lockFunds fails with BountyExists whenever the bountyId has
\* a record in any status, and fails whenever amount <= 0, with no transfer and
\* no change to the records; on success it creates the record {depositor,
\* amount, deadline, Locked} and moves exactly amount from the depositor into
\* custody.
C9_AsStated ==
    [][\A c, d \in Addr, b \in BountyIds, m \in Amounts :
          /\ HasEscrow(b) => LockResult(c, d, b, m) = BountyExists
          /\ m <= 0 => LockResult(c, d, b, m) # Ok
          /\ \A dl \in Deadlines : lock_funds(c, d, b, m, dl) =>
                /\ ~HasEscrow(b) /\ m > 0
                /\ escrows' = [escrows EXCEPT ![b] = Escrow(d, m, dl, "Locked")]
                /\ bal'[d] = bal[d] - m
                /\ bal'[Contract] = bal[Contract] + m
                /\ \A a \in Addr \ {d} : bal'[a] = bal[a]]_vars

\* C9 (amended): lockFunds fails whenever the bountyId has a record in any
\* status, with BountyExists when the contract is not paused and the call
\* carries the depositor's authorization (ContractPaused or Unauthorized is
\* reported first otherwise), and fails whenever amount <= 0, with no transfer
\* and no change to the records; on success it creates the record {depositor,
\* amount, deadline, Locked} and moves exactly amount from the depositor into
\* custody.
C9_LockFunds ==
    /\ [](\A c, d \in Addr, b \in BountyIds, m \in Amounts :
            /\ HasEscrow(b) => LockResult(c, d, b, m) # Ok
            /\ (HasEscrow(b) /\ ~paused /\ c = d) => LockResult(c, d, b, m) = BountyExists
            /\ m <= 0 => LockResult(c, d, b, m) # Ok)
    /\ [][\A c, d \in Addr, b \in BountyIds, m \in Amounts :
            LockResult(c, d, b, m) = Ok =>
               \A dl \in Deadlines : lock_funds(c, d, b, m, dl) =>
                  /\ ~HasEscrow(b) /\ m > 0
                  /\ escrows' = [escrows EXCEPT ![b] = Escrow(d, m, dl, "Locked")]
                  /\ bal'[d] = bal[d] - m
                  /\ bal'[Contract] = bal[Contract] + m
                  /\ \A a \in Addr \ {d} : bal'[a] = bal[a]]_vars

\* A refunded bounty whose identifier its funded depositor tries to lock
\* again: the call is rejected with BountyExists.
C9_Witness ==
    \E b \in BountyIds :
        /\ escrows[b].status = "Refunded"
        /\ ~paused
        /\ LET d == escrows[b].depositor
           IN bal[d] >= 1 /\ LockResult(d, d, b, 1) = BountyExists

\* C10: initialize is one-time: the first call stores the admin, with role
\* Admin, and the token; from then on every initialize, whoever calls it and
\* with whatever arguments, fails with AlreadyInitialized and the stored admin
\* and token never change (the RBAC map changes only by grant and revoke).
C10_InitOnce ==
    [][/\ initialized =>
             /\ InitializeResult = AlreadyInitialized
             /\ admin' = admin /\ token' = token
       /\ \A c, a \in Addr, t \in Tokens : initialize(c, a, t) =>
             /\ ~initialized
             /\ admin' = a /\ token' = t
             /\ roles' = [x \in Addr |-> IF x = a THEN "Admin" ELSE roles[x]]
             /\ UNCHANGED <<paused, escrows, bal>>]_vars

\* An initialized contract holding the second token, whose admin has since
\* handed the Admin role to another address and lost its own.
C10_Witness ==
    /\ initialized
    /\ token = NumTokens
    /\ roles[admin] # "Admin"
    /\ \E a \in Addr : a # admin /\ is_admin(a)
    /\ InitializeResult = AlreadyInitialized

\* Inputs of the role-gated program calls that the RBAC claims range over.
SmallBatches == {bt \in Batches : Len(bt[1]) <= MaxBatchLen}

C12_OnlyAdminManagesRoles ==
    /\ [](\A c \in Addr : get_role(c) # "Admin" =>
            GrantResult(c) = Unauthorized /\ RevokeResult(c) = Unauthorized)
    /\ [][\A c \in Addr : get_role(c) # "Admin" =>
            \A a \in Addr :
               /\ ~revoke_role(c, a)
               /\ \A r \in Roles : ~grant_role(c, a, r)]_vars

\* An Operator, a Pauser and an Admin side by side: the first two are refused
\* both calls.
C12_Witness ==
    \E o, p, a \in Addr :
        /\ get_role(o) = "Operator" /\ get_role(p) = "Pauser" /\ get_role(a) = "Admin"
        /\ GrantResult(o) = Unauthorized /\ RevokeResult(o) = Unauthorized
        /\ GrantResult(p) = Unauthorized /\ RevokeResult(p) = Unauthorized
        /\ GrantResult(a) = Ok

C16_RolesComeFromAdmins ==
    /\ [](~initialized => \A a \in Addr : get_role(a) = NoRole)
    /\ [][/\ \A c, a \in Addr, t \in Tokens : initialize(c, a, t) =>
                roles' = [x \in Addr |-> IF x = a THEN "Admin" ELSE NoRole]
          /\ \A x \in Addr : (roles'[x] # roles[x] /\ roles'[x] \in Roles) =>
                \/ ~initialized /\ x = admin' /\ roles'[x] = "Admin"
                \/ \E c \in Addr : is_admin(c) /\ grant_role(c, x, roles'[x])]_vars

\* A freshly initialized contract: the admin is the only role holder.
C16_Witness ==
    /\ initialized
    /\ get_role(admin) = "Admin"
    /\ Cardinality({a \in Addr : get_role(a) # NoRole}) = 1
    /\ \A a \in Addr \ {admin} : GrantResult(a) = Unauthorized

\* Callers below the Admin tier that hold a capability, and the Admins.
Delegates == {c \in Addr : get_role(c) \in {"Operator", "Pauser"}}
Admins == {a \in Addr : is_admin(a)}

\* The role-gated and caller-independent entry points: whenever the call
\* succeeds for caller c it succeeds for caller a, and a step that is c's
\* call is also a's call (same resulting state, same transfers).
SameOutcome(c, a) ==
    /\ PauseResult(c) = Ok => PauseResult(a) = Ok
    /\ UnpauseResult(c) = Ok => UnpauseResult(a) = Ok
    /\ GrantResult(c) = Ok => GrantResult(a) = Ok
    /\ RevokeResult(c) = Ok => RevokeResult(a) = Ok
    /\ \A b \in BountyIds : ReleaseResult(c, b) = Ok => ReleaseResult(a, b) = Ok
    /\ \A r \in Recipients, m \in PayAmounts :
          SinglePayoutResult(c, r, m) = Ok => SinglePayoutResult(a, r, m) = Ok
    /\ \A bt \in Batches :
          BatchPayoutResult(c, bt[1], bt[2]) = Ok => BatchPayoutResult(a, bt[1], bt[2]) = Ok
    /\ \A sc \in ScheduleIds :
          /\ \A m \in Amounts : CreateScheduleResult(c, sc, m) = Ok => CreateScheduleResult(a, sc, m) = Ok
          /\ ReleaseScheduleResult(c, sc) = Ok => ReleaseScheduleResult(a, sc) = Ok
    /\ \A mb \in LimitChoices : UpdateLimitsResult(c, mb) = Ok => UpdateLimitsResult(a, mb) = Ok

SameEffect(c, a) ==
    /\ pause_contract(c) => pause_contract(a)
    /\ unpause_contract(c) => unpause_contract(a)
    /\ \A r \in Recipients, m \in PayAmounts : single_payout(c, r, m) => single_payout(a, r, m)
    /\ \A bt \in Batches : batch_payout(c, bt[1], bt[2]) => batch_payout(a, bt[1], bt[2])
    /\ \A sc \in ScheduleIds :
          /\ \A r \in Addr, m \in Amounts, u \in 0..MaxTime :
                create_release_schedule(c, sc, r, m, u) => create_release_schedule(a, sc, r, m, u)
          /\ release_prog_schedule_automatic(c, sc) => release_prog_schedule_automatic(a, sc)
    /\ \A mb \in LimitChoices : update_limits(c, mb) => update_limits(a, mb)

NoPayout(c) ==
    /\ \A r \in Recipients, m \in PayAmounts : SinglePayoutResult(c, r, m) # Ok
    /\ \A bt \in Batches : BatchPayoutResult(c, bt[1], bt[2]) # Ok
NoScheduleCreation(c) ==
    \A sc \in ScheduleIds, m \in Amounts : CreateScheduleResult(c, sc, m) = Unauthorized
NoBountyRelease(c) ==
    /\ ReleaseAuth(c) = Unauthorized
    /\ \A b \in BountyIds : ReleaseResult(c, b) # Ok
NoAdministration(c) ==
    /\ UnpauseResult(c) = Unauthorized
    /\ GrantResult(c) = Unauthorized /\ RevokeResult(c) = Unauthorized
    /\ \A mb \in LimitChoices : UpdateLimitsResult(c, mb) = Unauthorized

Last(q) == q[Len(q)]

RECURSIVE SeqSum(_)
SeqSum(q) == IF q = <<>> THEN 0 ELSE Head(q) + SeqSum(Tail(q))

\* C17: the program's remaining balance is never negative and equals the sum
\* of all amounts ever locked minus the sum of all amounts ever paid out by
\* single payouts, batch payouts and schedule releases; the tokens the
\* contract holds are that balance.
C17_RemainingBalance ==
    /\ get_remaining_balance >= 0
    /\ get_remaining_balance = SeqSum(locked_log) - SeqSum(paid_log)
    /\ bal[Contract] = get_remaining_balance

\* A program after two locks, a payout and a schedule release, with funds left.
C17_Witness ==
    /\ Len(locked_log) = MaxLocks
    /\ Len(paid_log) = MaxPayouts
    /\ payout_history # <<>>
    /\ \E sc \in ScheduleIds : schedules[sc].status = "Consumed"
    /\ get_remaining_balance > 0

\* What address a is listed to receive in a batch.
Listed(recipients, amounts, a) ==
    SeqSum([i \in 1..Len(amounts) |-> IF recipients[i] = a THEN amounts[i] ELSE 0])

\* A batch that nothing but its total can get rejected: the contract is not
\* paused, the caller is authorized and the lists are of one admitted length.
Admissible(c, recipients, amounts) ==
    /\ ~paused /\ program_initialized
    /\ PayoutAuth(c) = Ok
    /\ Len(recipients) = Len(amounts)
    /\ Len(recipients) <= limits.max_batch_size

\* C18 (as stated): a batch whose total T exceeds the remaining balance B
\* fails with InsufficientBalance, whoever calls it and in whatever state, and
\* a batch payout that succeeds leaves B - T and credits every recipient with
\* its listed amount.
C18_AsStated ==
    /\ [](\A c \in Addr, bt \in Batches :
            SeqSum(bt[2]) > get_remaining_balance =>
                BatchPayoutResult(c, bt[1], bt[2]) = InsufficientBalance)
    /\ [][\A c \in Addr, bt \in Batches : batch_payout(c, bt[1], bt[2]) =>
            /\ get_remaining_balance' = get_remaining_balance - SeqSum(bt[2])
            /\ \A a \in Addr : bal'[a] = bal[a] + Listed(bt[1], bt[2], a)]_vars

\* C18 (amended): batch payouts are all-or-nothing.  A batch whose total T
\* exceeds the remaining balance B always fails with nothing changed, and the
\* failure is InsufficientBalance when no earlier check rejects the call (the
\* contract is not paused, the caller is authorized, the lists have one
\* admitted length and the sum does not overflow).  If T <= B (equality
\* included) and the call is otherwise valid it succeeds, the remaining
\* balance becomes B - T and every recipient receives exactly its listed
\* amount.  No state is reachable in which part of a batch has been paid: the
\* tokens held always equal the remaining balance.
C18_BatchAllOrNothing ==
    /\ [](/\ bal[Contract] = get_remaining_balance
          /\ \A c \in Addr, bt \in Batches :
               LET T == SeqSum(bt[2])
                   B == get_remaining_balance
               IN /\ T > B => BatchPayoutResult(c, bt[1], bt[2]) # Ok
                  /\ (T > B /\ T <= IntMax /\ Admissible(c, bt[1], bt[2])) =>
                        BatchPayoutResult(c, bt[1], bt[2]) = InsufficientBalance
                  /\ (T <= B /\ Admissible(c, bt[1], bt[2])) =>
                        BatchPayoutResult(c, bt[1], bt[2]) = Ok)
    /\ [][\A c \in Addr, bt \in Batches : batch_payout(c, bt[1], bt[2]) =>
            /\ SeqSum(bt[2]) <= get_remaining_balance
            /\ get_remaining_balance' = get_remaining_balance - SeqSum(bt[2])
            /\ bal'[Contract] = bal[Contract] - SeqSum(bt[2])
            /\ \A a \in Addr : bal'[a] = bal[a] + Listed(bt[1], bt[2], a)
            /\ Len(payout_history') = Len(payout_history) + 1]_vars

\* A batch of two entries whose total was exactly the remaining balance has
\* been paid, leaving nothing, and the same batch is now refused for lack of
\* funds.
C18_Witness ==
    \E i \in DOMAIN payout_history :
        /\ Len(payout_history[i].recipients) = MaxBatchLen
        /\ payout_history[i].balance = 0
        /\ get_remaining_balance = 0
        /\ ~paused
        /\ BatchPayoutResult(1, payout_history[i].recipients, payout_history[i].amounts)
              = InsufficientBalance

\* C19 (as stated): a batch whose amounts sum past the largest amount fails
\* with ArithmeticOverflow, whoever calls it and in whatever state, and a lock
\* that would push the remaining balance past the largest amount fails.
C19_AsStated ==
    /\ \A c \in Addr, bt \in Batches :
          SeqSum(bt[2]) > IntMax => BatchPayoutResult(c, bt[1], bt[2]) = ArithmeticOverflow
    /\ \A c \in Addr, m \in ProgAmounts :
          get_remaining_balance + m > IntMax => LockProgramResult(c, m) # Ok

\* C19 (amended): arithmetic is overflow-checked.  A batchPayout whose amounts
\* sum past the largest representable amount always aborts with no transfer
\* and no state change, whatever the remaining balance, and the error is
\* ArithmeticOverflow when no earlier check rejects the call (the contract is
\* not paused, the caller is authorized and the lists have one admitted
\* length).  A lockProgramFunds that would push the remaining balance past
\* the largest amount aborts rather than wrapping, with ArithmeticOverflow on
\* a contract that is not paused; the remaining balance never exceeds the
\* largest amount.
C19_OverflowChecked ==
    /\ get_remaining_balance <= IntMax
    /\ \A c \in Addr, bt \in Batches : SeqSum(bt[2]) > IntMax =>
          /\ BatchPayoutResult(c, bt[1], bt[2]) # Ok
          /\ Admissible(c, bt[1], bt[2]) =>
                BatchPayoutResult(c, bt[1], bt[2]) = ArithmeticOverflow
    /\ \A c \in Addr, m \in ProgAmounts : get_remaining_balance + m > IntMax =>
          /\ LockProgramResult(c, m) # Ok
          /\ ~paused => LockProgramResult(c, m) = ArithmeticOverflow

\* The remaining balance is the largest amount: a funded caller's further
\* lock aborts with ArithmeticOverflow, and so does the Admin's batch whose
\* amounts sum past the largest amount, though its first entry alone is covered.
C19_Witness ==
    /\ get_remaining_balance = IntMax
    /\ ~paused
    /\ \E c \in Addr :
          bal[c] >= MaxAmount /\ LockProgramResult(c, MaxAmount) = ArithmeticOverflow
    /\ BatchPayoutResult(1, <<2, 2>>, <<IntMax, 1>>) = ArithmeticOverflow
    /\ SinglePayoutResult(1, 2, IntMax) = Ok

AllBatches == Batches \cup BigBatches

\* C20 (as stated): batchPayout fails with BatchLengthMismatch when the two
\* lists differ in length and with BatchTooLarge when a batch has more than
\* 100 entries, whoever calls it and in whatever state; a batch of exactly 100
\* entries that the balance covers is accepted from an authorized caller; the
\* configured maximum never exceeds 100.
C20_AsStated ==
    /\ limits.max_batch_size <= MAX_BATCH_SIZE
    /\ \A c \in Addr, bt \in AllBatches :
          /\ Len(bt[1]) # Len(bt[2]) =>
                BatchPayoutResult(c, bt[1], bt[2]) = BatchLengthMismatch
          /\ (Len(bt[1]) = Len(bt[2]) /\ Len(bt[1]) > MAX_BATCH_SIZE) =>
                BatchPayoutResult(c, bt[1], bt[2]) = BatchTooLarge
          /\ (/\ Len(bt[1]) = MAX_BATCH_SIZE /\ Len(bt[2]) = MAX_BATCH_SIZE
              /\ ~paused /\ PayoutAuth(c) = Ok
              /\ SeqSum(bt[2]) <= get_remaining_balance) =>
                BatchPayoutResult(c, bt[1], bt[2]) = Ok

\* C20 (amended): batchPayout always fails, with no transfer and balance and
\* history unchanged, when the recipients and amounts lists differ in length
\* or when the batch has more than 100 entries; from an authorized caller on
\* a contract that is not paused the error is BatchLengthMismatch in the
\* first case and BatchTooLarge in the second (the lengths being equal).  A
\* batch of exactly 100 entries is accepted while the configured maximum is
\* 100; a batch larger than the configured maximum is rejected, and the
\* configured maximum never exceeds 100.
C20_BatchShape ==
    /\ [](/\ limits.max_batch_size <= MAX_BATCH_SIZE
          /\ \A c \in Addr, mb \in LimitChoices :
                mb > MAX_BATCH_SIZE => UpdateLimitsResult(c, mb) # Ok
          /\ \A c \in Addr, bt \in AllBatches :
               LET open == ~paused /\ program_initialized /\ PayoutAuth(c) = Ok
               IN /\ Len(bt[1]) # Len(bt[2]) =>
                        /\ BatchPayoutResult(c, bt[1], bt[2]) # Ok
                        /\ open => BatchPayoutResult(c, bt[1], bt[2]) = BatchLengthMismatch
                  /\ Len(bt[1]) > limits.max_batch_size =>
                        /\ BatchPayoutResult(c, bt[1], bt[2]) # Ok
                        /\ (open /\ Len(bt[1]) = Len(bt[2])) =>
                              BatchPayoutResult(c, bt[1], bt[2]) = BatchTooLarge
                  /\ (/\ Len(bt[1]) = MAX_BATCH_SIZE /\ Len(bt[2]) = MAX_BATCH_SIZE
                      /\ open /\ limits.max_batch_size = MAX_BATCH_SIZE
                      /\ SeqSum(bt[2]) <= get_remaining_balance) =>
                        BatchPayoutResult(c, bt[1], bt[2]) = Ok)
    /\ [][\A c \in Addr, bt \in AllBatches : batch_payout(c, bt[1], bt[2]) =>
            /\ Len(bt[1]) = Len(bt[2])
            /\ Len(bt[1]) <= MAX_BATCH_SIZE]_vars

\* A batch of exactly 100 entries has been paid; with the maximum still at
\* 100, a batch of 101 entries is refused as too large and lists of different
\* lengths as mismatched, and the history stays as it is.
C20_Witness ==
    /\ \E i \in DOMAIN payout_history : Len(payout_history[i].recipients) = MAX_BATCH_SIZE
    /\ limits.max_batch_size = MAX_BATCH_SIZE
    /\ ~paused
    /\ BatchPayoutResult(1, FullBatch(MAX_BATCH_SIZE + 1)[1], FullBatch(MAX_BATCH_SIZE + 1)[2])
          = BatchTooLarge
    /\ BatchPayoutResult(1, <<2, 3>>, <<1>>) = BatchLengthMismatch

\* C21 (as stated): singlePayout fails with InsufficientBalance when the
\* amount exceeds the remaining balance, whoever calls it and in whatever
\* state, and fails when the amount exceeds the per-transaction cap; a
\* successful one lowers the remaining balance by the amount, credits the
\* recipient with it and appends one history entry.
C21_AsStated ==
    /\ [](\A c \in Addr, r \in Recipients, m \in CapAmounts :
            /\ m > get_remaining_balance => SinglePayoutResult(c, r, m) = InsufficientBalance
            /\ m > limits.max_payout_per_transaction => SinglePayoutResult(c, r, m) # Ok)
    /\ [][\A c \in Addr, r \in Recipients, m \in CapAmounts : single_payout(c, r, m) =>
            /\ get_remaining_balance' = get_remaining_balance - m
            /\ bal'[r] = bal[r] + m
            /\ Len(payout_history') = Len(payout_history) + 1]_vars

\* C21 (amended): singlePayout(recipient, amount) fails with no state change
\* when amount exceeds the remaining balance, with InsufficientBalance if the
\* contract is not paused and the caller is authorized, and fails when amount
\* exceeds the configured per-transaction cap; when amount is at most the
\* remaining balance (equality included) and within the cap, an authorized
\* call on a contract that is not paused succeeds, lowers the remaining
\* balance by exactly amount, moves exactly amount from the contract to the
\* recipient, and appends exactly one history entry.
C21_SinglePayout ==
    /\ [](\A c \in Addr, r \in Recipients, m \in CapAmounts :
            LET open == ~paused /\ program_initialized /\ PayoutAuth(c) = Ok
            IN /\ m > get_remaining_balance =>
                     /\ SinglePayoutResult(c, r, m) # Ok
                     /\ open => SinglePayoutResult(c, r, m) = InsufficientBalance
               /\ m > limits.max_payout_per_transaction => SinglePayoutResult(c, r, m) # Ok
               /\ (open /\ m <= get_remaining_balance /\ m <= limits.max_payout_per_transaction) =>
                     SinglePayoutResult(c, r, m) = Ok)
    /\ [][\A c \in Addr, r \in Recipients, m \in CapAmounts : single_payout(c, r, m) =>
            /\ m <= get_remaining_balance /\ m <= limits.max_payout_per_transaction
            /\ get_remaining_balance' = get_remaining_balance - m
            /\ bal'[r] = bal[r] + m
            /\ bal'[Contract] = bal[Contract] - m
            /\ \A a \in Addr \ {r} : bal'[a] = bal[a]
            /\ payout_history' = Append(payout_history, Last(payout_history'))
            /\ Last(payout_history').recipients = <<r>>
            /\ Last(payout_history').amounts = <<m>>]_vars

\* Under a cap of one unit, a payout of exactly the remaining balance has been
\* made; after a further lock a payout of one unit is accepted and one of two
\* units, which the balance covers, is refused for the cap.
C21_Witness ==
    /\ limits.max_payout_per_transaction = 1
    /\ ~paused
    /\ \E i \in DOMAIN payout_history :
          payout_history[i].amounts = <<1>> /\ payout_history[i].balance = 0
    /\ get_remaining_balance >= MaxAmount
    /\ SinglePayoutResult(1, 2, 1) = Ok
    /\ SinglePayoutResult(1, 2, MaxAmount) = PayoutCapExceeded
    /\ SinglePayoutResult(1, 2, IntMax) = InsufficientBalance

Payers == {c \in Addr : c = program.authorized_key \/ get_role(c) \in {"Admin", "Operator"}}

C26_InitProgramOnce ==
    /\ [](program_initialized => InitProgramResult = AlreadyInitialized)
    /\ [][/\ program_initialized =>
                /\ program'.authorized_key = program.authorized_key
                /\ program'.token = program.token
          /\ \A c, k \in Addr, t \in Tokens : init_program(c, k, t) =>
                /\ ~program_initialized
                /\ program' = [authorized_key |-> k, token |-> t, remaining_balance |-> 0]
                /\ UNCHANGED <<payout_history, schedules, limits, bal, roles>>]_vars

\* A program initialized with the Operator as payout key and the second
\* token, then funded, paid from and scheduled on: a further initProgram is
\* rejected.
C26_Witness ==
    /\ program_initialized
    /\ program.authorized_key = 2 /\ program.token = NumTokens
    /\ get_remaining_balance > 0
    /\ payout_history # <<>>
    /\ \E sc \in ScheduleIds : schedules[sc].status = "Consumed"
    /\ InitProgramResult = AlreadyInitialized

\* C27: createReleaseSchedule succeeds only for a caller holding Admin or
\* Operator (any other caller gets Unauthorized) and moves no funds: the step
\* leaves the remaining balance, the payout history and every token balance
\* exactly as they were and only adds a new pending schedule with the given
\* recipient, amount and unlock time.
C27_CreateSchedule ==
    /\ [](\A c \in Addr, sc \in ScheduleIds, m \in Amounts :
            /\ CreateScheduleResult(c, sc, m) = Ok => get_role(c) \in {"Admin", "Operator"}
            /\ get_role(c) \notin {"Admin", "Operator"} =>
                  CreateScheduleResult(c, sc, m) = Unauthorized)
    /\ [][\A c \in Addr, sc \in ScheduleIds, r \in Addr, m \in Amounts, u \in 0..MaxTime :
            create_release_schedule(c, sc, r, m, u) =>
                /\ get_role(c) \in {"Admin", "Operator"}
                /\ ~HasSchedule(sc)
                /\ schedules' = [schedules EXCEPT ![sc] = Schedule(r, m, u, "Pending")]
                /\ UNCHANGED <<program, payout_history, bal, paid_log, locked_log>>]_vars

\* A pending schedule created on a program that holds nothing: no funds have
\* moved, and the payout key, which has no role, cannot create one.
C27_Witness ==
    \E sc \in ScheduleIds :
        /\ schedules[sc].status = "Pending"
        /\ schedules[sc].amount = MaxAmount
        /\ get_remaining_balance = 0 /\ bal[Contract] = 0
        /\ locked_log = <<>> /\ payout_history = <<>>
        /\ get_role(program.authorized_key) = NoRole
        /\ \A s2 \in ScheduleIds :
              CreateScheduleResult(program.authorized_key, s2, MaxAmount) = Unauthorized

Persisted == <<roles, paused, escrows, program, payout_history, schedules, limits, bal>>

\* A step that is an invocation ending in an error.
FailedCall ==
    \/ \E c \in Addr, a \in {1}, t \in {1} :
          InitializeResult # Ok /\ Invoke(InitializeResult, initialize(c, a, t))
    \/ \E c \in Addr, d \in {1}, b \in {1}, m \in {0, 1}, dl \in {MaxTime} :
          LockResult(c, d, b, m) # Ok /\ Invoke(LockResult(c, d, b, m), lock_funds(c, d, b, m, dl))
    \/ \E c \in Addr, b \in BountyIds, k \in {NumAddr} :
          ReleaseResult(c, b) # Ok /\ Invoke(ReleaseResult(c, b), release_funds(c, b, k))
    \/ \E c \in Addr, b \in BountyIds :
          RefundResult(c, b) # Ok /\ Invoke(RefundResult(c, b), refund(c, b))
    \/ \E c \in Addr, a \in {2}, r \in {"Operator"} :
          GrantResult(c) # Ok /\ Invoke(GrantResult(c), grant_role(c, a, r))
    \/ \E c \in Addr, a \in {2} :
          RevokeResult(c) # Ok /\ Invoke(RevokeResult(c), revoke_role(c, a))
    \/ \E c \in Addr : PauseResult(c) # Ok /\ Invoke(PauseResult(c), pause_contract(c))
    \/ \E c \in Addr : UnpauseResult(c) # Ok /\ Invoke(UnpauseResult(c), unpause_contract(c))
    \/ \E c \in Addr, k \in {NumAddr}, t \in {1} :
          InitProgramResult # Ok /\ Invoke(InitProgramResult, init_program(c, k, t))
    \/ \E c \in Addr, m \in {0, MaxAmount} :
          LockProgramResult(c, m) # Ok /\ Invoke(LockProgramResult(c, m), lock_program_funds(c, m))
    \/ \E c \in Addr, r \in {NumAddr}, m \in PayAmounts :
          /\ SinglePayoutResult(c, r, m) # Ok
          /\ Invoke(SinglePayoutResult(c, r, m), single_payout(c, r, m))
    \/ \E c \in Addr, bt \in AtomicBatches :
          /\ BatchPayoutResult(c, bt[1], bt[2]) # Ok
          /\ Invoke(BatchPayoutResult(c, bt[1], bt[2]), batch_payout(c, bt[1], bt[2]))
    \/ \E c \in Addr, s \in ScheduleIds, r \in {NumAddr}, m \in {0, 1}, u \in {MaxTime} :
          /\ CreateScheduleResult(c, s, m) # Ok
          /\ Invoke(CreateScheduleResult(c, s, m), create_release_schedule(c, s, r, m, u))
    \/ \E c \in Addr, s \in ScheduleIds :
          /\ ReleaseScheduleResult(c, s) # Ok
          /\ Invoke(ReleaseScheduleResult(c, s), release_prog_schedule_automatic(c, s))
    \/ \E c \in Addr, mb \in {MAX_BATCH_SIZE, MAX_BATCH_SIZE + 1} :
          UpdateLimitsResult(c, mb) # Ok /\ Invoke(UpdateLimitsResult(c, mb), update_limits(c, mb))
    \/ \E c \in Addr, cap \in {0, IntMax} :
          UpdateCapResult(c, cap) # Ok /\ Invoke(UpdateCapResult(c, cap), update_payout_cap(c, cap))

RefundDue(b) == Locked(b) /\ now >= escrows[b].deadline
ReleaseDue(sc) == schedules[sc].status = "Pending" /\ now >= schedules[sc].unlock

RECURSIVE PendingTotal(_)
PendingTotal(q) == IF q = <<>> THEN 0 ELSE Head(q).amount + PendingTotal(Tail(q))

\* The state change a pending transfer belongs to has been written.
Written(t) ==
    /\ t.kind = "bounty" => Terminal(t.id)
    /\ t.kind = "schedule" => schedules[t.id].status = "Consumed"

\* C35: checks-effects-interactions: within releaseFunds, refund,
\* singlePayout, batchPayout and releaseProgScheduleAutomatic the state
\* change is written before the token transfer starts: whenever a transfer
\* is still to be made its bounty is already Released or Refunded and its
\* schedule already consumed, the tokens the contract holds are exactly the
\* remaining balance plus the locked bounties plus the transfers still to be
\* made, and every step that takes tokens out of the contract is such a
\* transfer.
C35_StateBeforeTransfer ==
    /\ [](\A i \in DOMAIN transfers : Written(transfers[i]))
    /\ [](bal[Contract] =
            program.remaining_balance + SumLocked(BountyIds) + PendingTotal(transfers))
    /\ [][bal'[Contract] < bal[Contract] =>
            /\ token_client_transfer
            /\ Written(Head(transfers))
            /\ bal[Contract] - Head(transfers).amount >=
                  program.remaining_balance + SumLocked(BountyIds)]_vars

\* A batch payout half way through its transfers, after a release and a
\* scheduled release have been completed: the balance is already
\* decremented for the whole batch and one transfer is still to be made.
C35_Witness ==
    /\ Len(transfers) = 1
    /\ transfers[1].kind = "payout"
    /\ Len(Last(payout_history).recipients) = 2
    /\ \E b \in BountyIds : escrows[b].status = "Released"
    /\ bal[Contract] = program.remaining_balance + SumLocked(BountyIds) + 1

Unfunded(sc) == ReleaseDue(sc) /\ schedules[sc].amount > program.remaining_balance

AdminLost == initialized /\ Admins = {}

C39_AsStated ==
    /\ [](~(modal.onSaved > 0 /\ modal.onSkip > 0))
    /\ [](~modal.saving => ~modal.isSubmitting)
    /\ [][/\ (handleSkip /\ modal.isSubmitting) => UNCHANGED modal
          /\ (handleSkip /\ modal.timers > 0) =>
                (modal'.onSkip = modal.onSkip /\ modal'.onClose = modal.onClose)
          /\ (handleSubmit /\ trim(modal.ecosystemName) = "") =>
                /\ modal'.error = "Ecosystem is required"
                /\ modal'.updateProjectMetadata = modal.updateProjectMetadata
                /\ ~modal'.saving]_vars

\* One project, one save: the save succeeded, the dialog was then skipped
\* before the timer fired, and the timer fired all the same; onSkip,
\* onClose and onSaved have each been called.
C39_Witness ==
    /\ modal.project = 1
    /\ modal.updateProjectMetadata = 1
    /\ modal.onSkip = 1 /\ modal.onClose = 1
    /\ modal.onSaved = 1
    /\ modal.timers = 0 /\ ~modal.isSubmitting

====
